---- MODULE Spec2Model ----
(***************************************************************************)
(* Online dictionary learning driver: decomp/dictionary_learning.py,       *)
(* solve().  The model follows solve() statement by statement for the real *)
(* (non-complex) family on the numpy backend; the conjugations of lines    *)
(* 107-108 and 122-123 are the identity there.  The argument checks of     *)
(* lines 60-64 pass for every argument explored.                           *)
(*                                                                         *)
(* Array elements are exact extended rationals <<n, d>> (d > 0, lowest     *)
(* terms) together with the three IEEE specials the arithmetic of solve()  *)
(* can produce: <<1, 0>> = +inf, <<-1, 0>> = -inf and <<0, 0>> = NaN.      *)
(* Rounding is not modelled.  Arrays are sequences (vectors) and sequences *)
(* of rows (matrices).                                                     *)
(*                                                                         *)
(* The sparse-code solvers (decomp.lasso) and the sampler                  *)
(* (decomp.utils.data.minibatch_index) are collaborators outside solve():  *)
(* a solver call returns any code batch over CodeVals, the sampler any     *)
(* index sequence of the minibatch length.                                 *)
(***************************************************************************)
EXTENDS Integers, Sequences, FiniteSets, TLC

(***************************************************************************)
(* Bounds of the model.                                                    *)
(***************************************************************************)
\* largest value of the maxiter argument that is explored
MaxIter == 3
\* _JITTER is carried as the positive rational 1 / JitterDen: its value in
\* the source, 1.0e-10, has a denominator beyond TLC's 32-bit integers.  The
\* update formula is the source's; only the magnitude of the constant differs,
\* and no property below depends on it (each is checked for two values).
JitterDen == 4

(***************************************************************************)
(* Float arithmetic on extended rationals.                                 *)
(***************************************************************************)
RECURSIVE GCD(_, _)
GCD(a, b) == IF b = 0 THEN a ELSE GCD(b, a % b)

AbsInt(n) == IF n < 0 THEN -n ELSE n

SignInt(n) == IF n < 0 THEN -1 ELSE IF n > 0 THEN 1 ELSE 0

NaN == <<0, 0>>

Inf(s) == <<s, 0>>

IsNaN(r) == r[2] = 0 /\ r[1] = 0

IsInf(r) == r[2] = 0 /\ r[1] # 0

IsFinite(r) == r[2] # 0

\* the finite value n / d, d # 0, in lowest terms with a positive denominator
Norm(n, d) ==
    LET g == GCD(AbsInt(n), AbsInt(d))
        s == IF d < 0 THEN -1 ELSE 1
    IN  <<(s * n) \div g, (s * d) \div g>>

R(n) == <<n, 1>>

Q(n, d) == Norm(n, d)

RNeg(a) == <<-a[1], a[2]>>

RAdd(a, b) ==
    IF IsNaN(a) \/ IsNaN(b) THEN NaN
    ELSE IF IsInf(a) /\ IsInf(b) THEN (IF a[1] = b[1] THEN a ELSE NaN)
    ELSE IF IsInf(a) THEN a
    ELSE IF IsInf(b) THEN b
    ELSE LET g == GCD(a[2], b[2])
         IN  Norm(a[1] * (b[2] \div g) + b[1] * (a[2] \div g),
                  (a[2] \div g) * b[2])

RSub(a, b) == RAdd(a, RNeg(b))

RMul(a, b) ==
    IF IsNaN(a) \/ IsNaN(b) THEN NaN
    ELSE IF IsInf(a) \/ IsInf(b)
         THEN (IF a[1] = 0 \/ b[1] = 0 THEN NaN
               ELSE Inf(SignInt(a[1]) * SignInt(b[1])))
    ELSE LET g1 == GCD(AbsInt(a[1]), b[2])
             g2 == GCD(AbsInt(b[1]), a[2])
         IN  Norm((a[1] \div g1) * (b[1] \div g2),
                  (a[2] \div g2) * (b[2] \div g1))

\* a / b as numpy divides floats: x / 0 is +-inf, 0 / 0 is NaN, no exception
RDiv(a, b) ==
    IF IsNaN(a) \/ IsNaN(b) THEN NaN
    ELSE IF IsInf(b) THEN (IF IsInf(a) THEN NaN ELSE R(0))
    ELSE IF b[1] = 0 THEN (IF a[1] = 0 THEN NaN ELSE Inf(SignInt(a[1])))
    ELSE IF IsInf(a) THEN Inf(SignInt(a[1]) * SignInt(b[1]))
    ELSE Norm(a[1] * b[2], a[2] * b[1])

\* a < b; every comparison with NaN is false
RLt(a, b) ==
    IF IsNaN(a) \/ IsNaN(b) THEN FALSE
    ELSE IF a = b THEN FALSE
    ELSE IF IsInf(a) THEN a[1] < 0
    ELSE IF IsInf(b) THEN b[1] > 0
    ELSE LET g == GCD(a[2], b[2])
         IN  a[1] * (b[2] \div g) < b[1] * (a[2] \div g)

RLe(a, b) == (~IsNaN(a)) /\ (~IsNaN(b)) /\ ~RLt(b, a)

RAbs(a) == <<AbsInt(a[1]), a[2]>>

\* xp.maximum(a, b): NaN propagates
RMaximum(a, b) ==
    IF IsNaN(a) \/ IsNaN(b) THEN NaN
    ELSE IF RLt(a, b) THEN b ELSE a

(***************************************************************************)
(* Array operations of the backend (xp) that solve() uses.                 *)
(***************************************************************************)
RECURSIVE SumSeq(_)
SumSeq(s) == IF s = <<>> THEN R(0) ELSE RAdd(s[1], SumSeq(Tail(s)))

\* xp.max over the elements: NaN propagates
RECURSIVE MaxSeq(_)
MaxSeq(s) == IF Len(s) = 1 THEN s[1] ELSE RMaximum(s[1], MaxSeq(Tail(s)))

RECURSIVE Flatten(_)
Flatten(M) == IF M = <<>> THEN <<>> ELSE M[1] \o Flatten(Tail(M))

\* a [r, c] array of zeros: xp.zeros
Zeros(r, c) == [i \in 1..r |-> [j \in 1..c |-> R(0)]]

ZerosVec(c) == [j \in 1..c |-> R(0)]

\* M.T of an [r, c] array with c columns
Transpose(M, c) == [j \in 1..c |-> [i \in 1..Len(M) |-> M[i][j]]]

\* xp.dot(P, Qm) of [r, k] and [k, c]
Dot(P, Qm, c) ==
    [i \in 1..Len(P) |->
        [j \in 1..c |-> SumSeq([k \in 1..Len(Qm) |-> RMul(P[i][k], Qm[k][j])])]]

MAdd(P, Qm) == [i \in 1..Len(P) |-> [j \in 1..Len(P[i]) |-> RAdd(P[i][j], Qm[i][j])]]

MSub(P, Qm) == [i \in 1..Len(P) |-> [j \in 1..Len(P[i]) |-> RSub(P[i][j], Qm[i][j])]]

MMul(P, Qm) == [i \in 1..Len(P) |-> [j \in 1..Len(P[i]) |-> RMul(P[i][j], Qm[i][j])]]

\* scalar * array
MScale(r, P) == [i \in 1..Len(P) |-> [j \in 1..Len(P[i]) |-> RMul(r, P[i][j])]]

\* a [C] vector broadcast against the rows of an [F, C] array: v * P
RowBroadcastMul(v, P) ==
    [i \in 1..Len(P) |-> [j \in 1..Len(P[i]) |-> RMul(v[j], P[i][j])]]

\* xp.sum(M, axis=0) of an array with c columns
SumAxis0(M, c) == [j \in 1..c |-> SumSeq([i \in 1..Len(M) |-> M[i][j]])]

\* a[indexes]: the rows selected by an index sequence (a copy)
Take(a, indexes) == [k \in 1..Len(indexes) |-> a[indexes[k]]]

\* a[indexes] = rows: in-place assignment, the last write to a row wins
AssignRows(a, indexes, rows) ==
    [i \in 1..Len(a) |->
        IF \E k \in 1..Len(indexes) : indexes[k] = i
        THEN rows[CHOOSE k \in 1..Len(indexes) :
                    /\ indexes[k] = i
                    /\ \A k2 \in 1..Len(indexes) : indexes[k2] = i => k2 <= k]
        ELSE a[i]]

\* an integer array as an array of floats
IntMat(M) == [i \in 1..Len(M) |-> [j \in 1..Len(M[i]) |-> R(M[i][j])]]

(***************************************************************************)
(* The statements of solve() that compute values.                          *)
(***************************************************************************)
\* _JITTER
Jitter == Q(1, JitterDen)

\* x = xp.zeros(y.shape[:-1] + (D.shape[0], )) when x is None
InitialX(xArg, yArg, DArg) ==
    IF xArg = <<>> THEN Zeros(Len(yArg), Len(DArg)) ELSE xArg

\* mutant of UpdateA: A is the snapshot of the last minibatch
UpdateASnapshot(Aold, t, xb) == Dot(Transpose(xb, Len(Aold)), xb, Len(Aold))

\* A = (1.0 - it_inv) * A + it_inv * xp.dot(xT, x_minibatch), it_inv = 1.0 / it
UpdateA(Aold, t, xb) ==
    LET F == Len(Aold)
        xT == Transpose(xb, F)
        it_inv == RDiv(R(1), R(t))
    IN  MAdd(MScale(RSub(R(1), it_inv), Aold), MScale(it_inv, Dot(xT, xb, F)))

\* B = (1.0 - it_inv) * B + it_inv * xp.dot(xT, y_minibatch)
UpdateB(Bold, t, xb, yb) ==
    LET F == Len(Bold)
        C == Len(Bold[1])
        xT == Transpose(xb, F)
        it_inv == RDiv(R(1), R(t))
    IN  MAdd(MScale(RSub(R(1), it_inv), Bold), MScale(it_inv, Dot(xT, yb, C)))

\* mask_sum = xp.sum(mask_minibatch, axis=0)
MaskSum(mb, C) == SumAxis0(mb, C)

\* E = E + mask_sum
UpdateE(Eold, mask_sum) == [c \in 1..Len(Eold) |-> RAdd(Eold[c], mask_sum[c])]

\* xp.dot(xT, y_minibatch * mask_minibatch)
MaskedCross(xb, yb, mb, F, C) == Dot(Transpose(xb, F), MMul(yb, mb), C)

\* B = B + 1.0 / E * (xp.dot(xT, y_minibatch * mask_minibatch) - mask_sum * B)
\* with E already updated; 1.0 / E is evaluated first and is not guarded
UpdateBMasked(Bold, Enew, xb, yb, mb, mask_sum) ==
    LET F == Len(Bold)
        C == Len(Bold[1])
        Einv == [c \in 1..C |-> RDiv(R(1), Enew[c])]
        inner == MSub(MaskedCross(xb, yb, mb, F, C), RowBroadcastMul(mask_sum, Bold))
    IN  MAdd(Bold, RowBroadcastMul(Einv, inner))

\* Adiag = xp.expand_dims(xp.diagonal(A), -1)
\* U = (B - xp.dot(A, D)) / (Adiag + _JITTER) + D
ComputeU(Acur, Bcur, Dcur) ==
    LET C == Len(Dcur[1])
        num == MSub(Bcur, Dot(Acur, Dcur, C))
    IN  [f \in 1..Len(Dcur) |->
            [c \in 1..C |->
                RAdd(RDiv(num[f][c], RAdd(Acur[f][f], Jitter)), Dcur[f][c])]]

\* one row of Unorm = xp.sum(U * U, axis=-1, keepdims=True)
SqNorm(row) == SumSeq([c \in 1..Len(row) |-> RMul(row[c], row[c])])

\* mutant of ProjDivisor: the divisor is Unorm, without the maximum
ProjDivisorUnclamped(row) == SqNorm(row)

\* the divisor of one row: xp.maximum(Unorm, 1.0)
ProjDivisor(row) == RMaximum(SqNorm(row), R(1))

\* D_new = U / xp.maximum(Unorm, 1.0)
Project(Ucur) ==
    [f \in 1..Len(Ucur) |->
        [c \in 1..Len(Ucur[f]) |-> RDiv(Ucur[f][c], ProjDivisor(Ucur[f]))]]

\* xp.max(xp.abs(D - D_new))
MaxAbsDiff(P, Qm) ==
    MaxSeq(Flatten([i \in 1..Len(P) |->
                       [j \in 1..Len(P[i]) |-> RAbs(RSub(P[i][j], Qm[i][j]))]]))

\* if xp.max(xp.abs(D - D_new)) < tol
Converged(Dcur, Dnew, tolv) == RLt(MaxAbsDiff(Dcur, Dnew), tolv)

\* mutant of ConvergedDictionary: the convergence branch returns D_new
ConvergedDictionaryCandidate(Dcur, Dnew) == Dnew

\* the dictionary of "return it, D, x" in the convergence branch
ConvergedDictionary(Dcur, Dnew) == Dcur

\* mutant of RebindD: D[...] = D_new writes into the caller's array
RebindDInPlace(callerArray, Dnew) == Dnew

\* D = D_new binds the local name D to the new array; the contents of the
\* array object the caller passed are what they were
RebindD(callerArray, Dnew) == callerArray

\* x[indexes] = x_minibatch writes into the array object x names, which is
\* the caller's array when x was supplied
WriteBackCaller(callerArray, indexes_, xb) ==
    IF callerArray = <<>> THEN <<>> ELSE AssignRows(callerArray, indexes_, xb)

\* the value bound to x_minibatch after the solver call: 'ista' assigns the
\* result to x_minibatch, 'fista' assigns it to the name x_minibatc
AfterLasso(method, warm, out) == IF method = "ista" THEN out ELSE warm

(***************************************************************************)
(* Collaborators that are not part of solve(): the sparse-code solver and  *)
(* the minibatch sampler, as black boxes over small value sets.            *)
(***************************************************************************)
CodeVals == {R(0), R(1)}

\* every [mb, F] code batch a solver may return
LassoOutputs(mb, F) == [1..mb -> [1..F -> CodeVals]]

\* every index sequence of length mb over n samples (with replacement)
MinibatchIndexes(n, mb) == [1..mb -> 1..n]

(***************************************************************************)
(* State of one call of solve().  An absent array (None, or a local not    *)
(* yet assigned) is the empty sequence.                                    *)
(***************************************************************************)
VARIABLES
    y, mask, lasso_method, maxiter, tol, minibatch,  \* arguments
    D_arg,          \* contents of the D argument when solve() was called
    callerD,        \* contents of the array object the caller passed as D
    callerX,        \* contents of the array object the caller passed as x
    D, x,           \* the arrays the local names D and x refer to
    A, B, E,        \* statistics
    it,             \* loop variable of "for it in range(1, maxiter)"
    indexes, x_minibatch, y_minibatch, mask_minibatch,
    U, D_new,
    pc,             \* position in solve()
    ret,            \* the returned tuple <<it, D, x>>, <<>> before return
    err,            \* the exception that left solve(), "none" if none
    reason,         \* which return statement returned
    solverOut,      \* what the last solver call returned
    boundary,       \* <<D, x>> at the last iteration boundary
    sumXX, sumXY,   \* sums of xT.x_minibatch and xT.y_minibatch folded so far
    sumM, sumP,     \* sums of mask_sum and of xT.(y_minibatch*mask_minibatch)
    folds           \* number of minibatches folded into A and B so far

args == <<y, mask, lasso_method, maxiter, tol, minibatch, D_arg>>

locals == <<indexes, x_minibatch, y_minibatch, mask_minibatch>>

stats == <<A, B, E>>

sums == <<sumXX, sumXY, sumM, sumP, folds>>

vars == <<args, callerD, callerX, D, x, stats, it, locals, U, D_new, pc, ret,
          err, reason, solverOut, boundary, sums>>

\* positions inside the try block of the loop body
InsideTry == {"sample", "lasso", "writeback", "accumulate", "update", "test",
              "endtry"}

\* the state when the for loop is first reached (lines 54-70), for arguments
\* drawn from the given sets
InitWith(Ys, Ds, Xs, Masks, Methods, MaxIters, Tols, Minibatches) ==
    /\ y \in Ys
    /\ D_arg \in Ds
    /\ callerX \in Xs
    /\ mask \in Masks
    /\ lasso_method \in Methods
    /\ maxiter \in MaxIters
    /\ tol \in Tols
    /\ minibatch \in Minibatches
    /\ callerD = D_arg
    /\ D = D_arg
    /\ x = InitialX(callerX, y, D_arg)
    /\ A = Zeros(Len(D_arg), Len(D_arg))
    /\ B = Zeros(Len(D_arg), Len(D_arg[1]))
    /\ E = IF mask = <<>> THEN <<>> ELSE ZerosVec(Len(D_arg[1]))
    /\ it = 0
    /\ indexes = <<>>
    /\ x_minibatch = <<>>
    /\ y_minibatch = <<>>
    /\ mask_minibatch = <<>>
    /\ U = <<>>
    /\ D_new = <<>>
    /\ pc = "for"
    /\ ret = <<>>
    /\ err = "none"
    /\ reason = "none"
    /\ solverOut = <<>>
    /\ boundary = <<D_arg, InitialX(callerX, y, D_arg)>>
    /\ sumXX = Zeros(Len(D_arg), Len(D_arg))
    /\ sumXY = Zeros(Len(D_arg), Len(D_arg[1]))
    /\ sumM = ZerosVec(Len(D_arg[1]))
    /\ sumP = Zeros(Len(D_arg), Len(D_arg[1]))
    /\ folds = 0

\* for it in range(1, maxiter): the next iteration, or "return maxiter, D, x"
ForNext ==
    /\ pc = "for"
    /\ IF it + 1 < maxiter
       THEN /\ it' = it + 1
            /\ pc' = "sample"
            /\ UNCHANGED <<ret, reason>>
       ELSE /\ ret' = <<maxiter, D, x>>
            /\ reason' = "exhausted"
            /\ pc' = "done"
            /\ UNCHANGED it
    /\ UNCHANGED <<args, callerD, callerX, D, x, stats, locals, U, D_new, err,
                   solverOut, boundary, sums>>

\* indexes = minibatch_index(...); x_minibatch = x[indexes];
\* y_minibatch = y[indexes]
Sample ==
    /\ pc = "sample"
    /\ \E idx \in MinibatchIndexes(Len(y), minibatch) :
          /\ indexes' = idx
          /\ x_minibatch' = Take(x, idx)
          /\ y_minibatch' = Take(y, idx)
    /\ pc' = "lasso"
    /\ UNCHANGED <<args, callerD, callerX, D, x, stats, it, mask_minibatch, U,
                   D_new, ret, err, reason, solverOut, boundary, sums>>

\* the "# lasso" block: the solver call for the method, or NotImplementedError
Lasso ==
    /\ pc = "lasso"
    /\ mask_minibatch' = IF mask = <<>> THEN mask_minibatch ELSE Take(mask, indexes)
    /\ IF lasso_method \in {"ista", "fista"}
       THEN \E out \in LassoOutputs(Len(indexes), Len(D)) :
               /\ solverOut' = out
               /\ x_minibatch' = AfterLasso(lasso_method, x_minibatch, out)
               /\ pc' = "writeback"
               /\ err' = err
       ELSE /\ err' = "NotImplementedError"
            /\ pc' = "raised"
            /\ UNCHANGED <<solverOut, x_minibatch>>
    /\ UNCHANGED <<args, callerD, callerX, D, x, stats, it, indexes,
                   y_minibatch, U, D_new, ret, reason, boundary, sums>>

\* x[indexes] = x_minibatch
WriteBack ==
    /\ pc = "writeback"
    /\ x' = AssignRows(x, indexes, x_minibatch)
    /\ callerX' = WriteBackCaller(callerX, indexes, x_minibatch)
    /\ pc' = "accumulate"
    /\ UNCHANGED <<args, callerD, D, stats, it, locals, U, D_new, ret, err,
                   reason, solverOut, boundary, sums>>

\* the statistics update, lines 106-118
Accumulate ==
    /\ pc = "accumulate"
    /\ A' = UpdateA(A, it, x_minibatch)
    /\ folds' = folds + 1
    /\ sumXX' = MAdd(sumXX, Dot(Transpose(x_minibatch, Len(D)), x_minibatch, Len(D)))
    /\ IF mask = <<>>
       THEN /\ B' = UpdateB(B, it, x_minibatch, y_minibatch)
            /\ sumXY' = MAdd(sumXY, Dot(Transpose(x_minibatch, Len(D)),
                                        y_minibatch, Len(D[1])))
            /\ UNCHANGED <<E, sumM, sumP>>
       ELSE /\ E' = UpdateE(E, MaskSum(mask_minibatch, Len(D[1])))
            /\ B' = UpdateBMasked(B, E', x_minibatch, y_minibatch, mask_minibatch,
                                  MaskSum(mask_minibatch, Len(D[1])))
            /\ sumM' = UpdateE(sumM, MaskSum(mask_minibatch, Len(D[1])))
            /\ sumP' = MAdd(sumP, MaskedCross(x_minibatch, y_minibatch,
                                              mask_minibatch, Len(D), Len(D[1])))
            /\ UNCHANGED sumXY
    /\ pc' = "update"
    /\ UNCHANGED <<args, callerD, callerX, D, x, it, locals, U, D_new, ret, err,
                   reason, solverOut, boundary>>

\* the dictionary candidate, lines 120-127
Update ==
    /\ pc = "update"
    /\ U' = ComputeU(A, B, D)
    /\ D_new' = Project(U')
    /\ pc' = "test"
    /\ UNCHANGED <<args, callerD, callerX, D, x, stats, it, locals, ret, err,
                   reason, solverOut, boundary, sums>>

\* lines 128-130: return on convergence, else D = D_new
Test ==
    /\ pc = "test"
    /\ IF Converged(D, D_new, tol)
       THEN /\ ret' = <<it, ConvergedDictionary(D, D_new), x>>
            /\ reason' = "converged"
            /\ pc' = "done"
            /\ UNCHANGED <<D, callerD, boundary>>
       ELSE /\ D' = D_new
            /\ callerD' = RebindD(callerD, D_new)
            /\ boundary' = <<D_new, x>>
            /\ pc' = "endtry"
            /\ UNCHANGED <<ret, reason>>
    /\ UNCHANGED <<args, callerX, x, stats, it, locals, U, D_new, err,
                   solverOut, sums>>

\* the try block ends and control is back at the for statement
LeaveTry ==
    /\ pc = "endtry"
    /\ pc' = "for"
    /\ UNCHANGED <<args, callerD, callerX, D, x, stats, it, locals, U, D_new,
                   ret, err, reason, solverOut, boundary, sums>>

\* except KeyboardInterrupt: return it, D, x -- from any point of the try block
Interrupt ==
    /\ pc \in InsideTry
    /\ ret' = <<it, D, x>>
    /\ reason' = "interrupt"
    /\ pc' = "done"
    /\ UNCHANGED <<args, callerD, callerX, D, x, stats, it, locals, U, D_new,
                   err, solverOut, boundary, sums>>

\* a KeyboardInterrupt at the for statement is outside the try block
InterruptOutside ==
    /\ pc = "for"
    /\ err' = "KeyboardInterrupt"
    /\ pc' = "raised"
    /\ UNCHANGED <<args, callerD, callerX, D, x, stats, it, locals, U, D_new,
                   ret, reason, solverOut, boundary, sums>>

Next ==
    \/ ForNext
    \/ Sample
    \/ Lasso
    \/ WriteBack
    \/ Accumulate
    \/ Update
    \/ Test
    \/ LeaveTry
    \/ Interrupt
    \/ InterruptOutside

(***************************************************************************)
(* Arguments explored.  Observations lie inside the unit ball, so that the *)
(* exact arithmetic stays within TLC's integers for every iteration run.   *)
(***************************************************************************)
\* y: two samples, two channels
Ys == {<<<<Q(1, 2), R(0)>>, <<R(0), Q(1, 2)>>>>}

\* D with one atom: on the unit sphere, outside the ball, inside the ball
Ds == {IntMat(<<<<1, 0>>>>), IntMat(<<<<2, 0>>>>), <<<<Q(1, 2), Q(1, 2)>>>>}

\* y for the runs with two atoms
Ys2 == {<<<<Q(1, 4), R(0)>>, <<R(0), Q(1, 4)>>>>}

\* D with two atoms
Ds2 == {IntMat(<<<<1, 0>>, <<0, 1>>>>)}

\* x: None, or a supplied code matrix
Xs == {<<>>, IntMat(<<<<1>>, <<0>>>>)}

\* mask: None, channel 2 of sample 1 missing, nothing missing
Masks == {<<>>, IntMat(<<<<1, 0>>, <<1, 1>>>>), IntMat(<<<<1, 1>>, <<1, 1>>>>)}

Methods == {"ista", "fista", "omp"}

Tols == {Q(1, 1000), R(1)}

\* one atom, minibatch of 1, every combination of the other arguments
InitOneAtom == InitWith(Ys, Ds, Xs, Masks, Methods, 0..MaxIter, Tols, {1})

\* two atoms, minibatch of 1
InitTwoAtoms ==
    InitWith(Ys2, Ds2, {<<>>}, Masks, Methods, {MaxIter}, {Q(1, 1000)}, {1})

\* one atom, minibatch of 2 (an index may be drawn twice)
InitBatch ==
    InitWith(Ys, {IntMat(<<<<1, 0>>>>)}, {<<>>}, Masks, Methods, {MaxIter},
             {Q(1, 1000)}, {2})

Init == InitOneAtom \/ InitTwoAtoms \/ InitBatch

Spec == Init /\ [][Next]_vars

(***************************************************************************)
(* SpecProj: the projection step of lines 125-127 on its own, applied to   *)
(* candidate arrays U with two rows drawn from a grid of rationals.        *)
(***************************************************************************)
ProjVals == {Q(-3, 2), R(-1), Q(-1, 2), R(0), Q(1, 2), R(1), R(2)}

ProjRows == {<<a, b>> : a \in ProjVals, b \in ProjVals}

InitProj ==
    /\ U \in {<<r1, r2>> : r1 \in ProjRows, r2 \in ProjRows}
    /\ pc = "project"
    /\ D_new = <<>>
    /\ y = <<>> /\ mask = <<>> /\ lasso_method = "ista" /\ maxiter = 0
    /\ tol = R(0) /\ minibatch = 1 /\ D_arg = <<>>
    /\ callerD = <<>> /\ callerX = <<>> /\ D = <<>> /\ x = <<>>
    /\ A = <<>> /\ B = <<>> /\ E = <<>> /\ it = 0
    /\ indexes = <<>> /\ x_minibatch = <<>> /\ y_minibatch = <<>>
    /\ mask_minibatch = <<>>
    /\ ret = <<>> /\ err = "none" /\ reason = "none" /\ solverOut = <<>>
    /\ boundary = <<>>
    /\ sumXX = <<>> /\ sumXY = <<>> /\ sumM = <<>> /\ sumP = <<>> /\ folds = 0

\* Unorm = xp.sum(U * U, ...); D_new = U / xp.maximum(Unorm, 1.0)
ProjectStep ==
    /\ pc = "project"
    /\ D_new' = Project(U)
    /\ pc' = "projected"
    /\ UNCHANGED <<args, callerD, callerX, D, x, stats, it, locals, U, ret, err,
                   reason, solverOut, boundary, sums>>

NextProj == ProjectStep

SpecProj == InitProj /\ [][NextProj]_vars

(***************************************************************************)
(* Properties.                                                             *)
(***************************************************************************)
Returned == pc = "done"

\* row i of x was written by this iteration's write-back
Sampled(i) == \E k \in 1..Len(indexes) : indexes[k] = i

\* C1 (as stated): on convergence at iteration it, solve returns it, the
\* updated x and the candidate D_new that passed the test.
C1_ReturnsCandidate ==
    (Returned /\ reason = "converged") =>
        (ret[1] = it /\ ret[3] = x /\ ret[2] = D_new)

\* C1 (amended): on convergence at iteration it, solve returns it, the x
\* with this iteration's minibatch codes written at the sampled rows, and
\* the dictionary D that was current at the start of the iteration, which
\* is within tol of the candidate D_new elementwise.
C1_ReturnsCurrent ==
    (Returned /\ reason = "converged") =>
        /\ ret[1] = it
        /\ ret[2] = boundary[1]
        /\ RLt(MaxAbsDiff(ret[2], D_new), tol)
        /\ ret[3] = x
        /\ \A i \in 1..Len(x) :
              IF Sampled(i)
              THEN \E k \in 1..Len(indexes) :
                      indexes[k] = i /\ ret[3][i] = x_minibatch[k]
              ELSE ret[3][i] = boundary[2][i]

\* a convergence return in which the candidate differs from the returned D
C1_Witness ==
    /\ Returned
    /\ reason = "converged"
    /\ ret[2] # D_new
    /\ ret[3] # boundary[2]

\* C2: a return caused by an interrupt yields the pair (D, x) of the last
\* iteration boundary, never x with codes of an uncommitted iteration.
C2_InterruptReturnsBoundary ==
    (Returned /\ reason = "interrupt") => <<ret[2], ret[3]>> = boundary

\* C3: every atom of every returned D has squared norm <= 1.
C3_ReturnedAtomsInUnitBall ==
    Returned => \A f \in 1..Len(ret[2]) : RLe(SqNorm(ret[2][f]), R(1))

\* C4: a call with an unrecognized solver choice never returns normally.
C4_UnsupportedNeverReturns ==
    (lasso_method \notin {"ista", "fista"}) => ~Returned

C6_CallerSeesDictionary ==
    /\ (pc = "for") => callerD = D
    /\ Returned => callerD = ret[2]

\* C6 (amended): solve never writes into the caller's D array, which keeps
\* the contents it had at the call; the caller's x array, when supplied, is
\* the array solve updates and returns.
C6_CallerDUntouched ==
    /\ callerD = D_arg
    /\ (callerX # <<>>) => callerX = x
    /\ (Returned /\ callerX # <<>>) => callerX = ret[3]

\* a return after a committed iteration: the returned dictionary differs
\* from the caller's array, and the caller's x was changed in place
C6_Witness ==
    /\ Returned
    /\ ret[2] # callerD
    /\ callerX # <<>>
    /\ callerX # IntMat(<<<<1>>, <<0>>>>)

\* C7: after the write-back x holds the codes the solver returned at the
\* sampled rows, and those codes are the batch folded into A and B.
C7_SolverCodesWritten ==
    (pc = "accumulate") =>
        /\ x = AssignRows(x, indexes, solverOut)
        /\ x_minibatch = solverOut

\* C8: in masked mode, for every channel with positive exposure, E is the
\* sum of the mask sums and E * B the sum of the masked cross products.
C8_MaskedRunningAverage ==
    (mask # <<>> /\ folds >= 1) =>
        \A c \in 1..Len(E) :
            RLt(R(0), E[c]) =>
                /\ E[c] = sumM[c]
                /\ \A f \in 1..Len(B) : RMul(E[c], B[f][c]) = sumP[f][c]

\* C9: in masked mode the B column of a channel whose exposure is still
\* zero is left as it was (zero), and no entry of B is non-finite.
C9_ZeroExposureSkipped ==
    (mask # <<>>) =>
        \A c \in 1..Len(E) : \A f \in 1..Len(B) :
            /\ IsFinite(B[f][c])
            /\ (E[c] = R(0)) => B[f][c] = R(0)

\* C10 (as stated): a row of U with squared norm <= 1 is unscaled, a row
\* with squared norm > 1 becomes a positive multiple with norm exactly 1.
C10_ExactUnitNorm ==
    (pc = "projected") =>
        \A f \in 1..Len(U) :
            /\ RLe(SqNorm(U[f]), R(1)) => D_new[f] = U[f]
            /\ RLt(R(1), SqNorm(U[f])) => SqNorm(D_new[f]) = R(1)

\* C10 (amended): a row of U with squared norm n <= 1 is unscaled; a row
\* with n > 1 becomes U_j / n, a positive multiple of U_j whose squared
\* norm is 1 / n, strictly less than 1.
C10_DividesBySquaredNorm ==
    (pc = "projected") =>
        \A f \in 1..Len(U) :
            /\ RLe(SqNorm(U[f]), R(1)) => D_new[f] = U[f]
            /\ RLt(R(1), SqNorm(U[f])) =>
                  /\ \A c \in 1..Len(U[f]) :
                        RMul(D_new[f][c], SqNorm(U[f])) = U[f][c]
                  /\ RMul(SqNorm(D_new[f]), SqNorm(U[f])) = R(1)
                  /\ RLt(SqNorm(D_new[f]), R(1))

\* a projected array with one row inside the ball and one outside
C10_Witness ==
    /\ pc = "projected"
    /\ RLt(R(0), SqNorm(U[1]))
    /\ RLt(SqNorm(U[1]), R(1))
    /\ D_new[1] = U[1]
    /\ RLt(R(1), SqNorm(U[2]))
    /\ D_new[2] # U[2]

====
